---- MODULE Spec2Model ----
(***************************************************************************)
(* Model of the SaraN2 AT-command driver (src/SaraN2Driver.cpp).           *)
(*                                                                         *)
(* Each thread that uses the one SaraN2 object is a small program counter  *)
(* machine.  A public operation is split at its transport calls (flush,    *)
(* send, recv, getc, set_timeout) and at _smutex.lock()/unlock(), because  *)
(* these are the points at which another thread can be scheduled.          *)
(* The modem is the environment: every recv either matches or times out,   *)
(* every getc yields a byte or -1.                                         *)
(***************************************************************************)
EXTENDS Integers, Sequences, FiniteSets, TLC

(* ------------------------------------------------------------------ *)
(* Bounds of the model                                                  *)
(* ------------------------------------------------------------------ *)
\* number of bytes the modem sends at most in one scanned reply, when one
\* thread uses the driver
MaxReply == 3

\* the same, when the threads use the driver concurrently
MaxConcurrentReply == 1

\* the longest of the replies made of every combination of a few bytes
MaxScripted == 4

\* the execution contexts that share the driver object (a control task and a
\* telemetry task)
Threads == {1, 2}

(* ------------------------------------------------------------------ *)
(* Program constants                                                    *)
(* ------------------------------------------------------------------ *)
NUMBER_OF_PROFILES == 3
MAX_URI_LENGTH == 200
BASE_TIMEOUT == 500
SCAN_TIMEOUT == 100
REBOOT_TIMEOUT == 10000
COAP_STATUS_TIMEOUT == 10000
COAP_SCAN_CEILING == 520
\* "Max recv_data payload size is 512 bytes" (src/SaraN2Driver.cpp:461)
COAP_PAYLOAD_MAX == 512

NUESTATS_SCAN_CEILING == 200
NUESTATS_BUFFER_SIZE == 16
NUESTATS_SLOTS == 11
INT_MAX == 2147483647
INT_MAX_DIV_10 == 214748364

SARAN2_OK == 0
FAIL_AT == 1
FAIL_SELECT_PROFILE == 2
INVALID_PROFILE == 3
FAIL_LOAD_PROFILE == 4
FAIL_SAVE_PROFILE == 5
FAIL_SET_PROFILE_VALIDITY == 6
VALUE_OUT_OF_BOUNDS == 7
FAIL_SET_COAP_IP_PORT == 8
FAIL_SET_COAP_URI == 9
URI_TOO_LONG == 10
FAIL_ADD_URI_HOST_PDU == 11
FAIL_ADD_URI_PORT_PDU == 12
FAIL_ADD_URI_PATH_PDU == 13
FAIL_ADD_URI_QUERY_PDU == 14
FAIL_REMOVE_URI_HOST_PDU == 15
FAIL_REMOVE_URI_PORT_PDU == 16
FAIL_REMOVE_URI_PATH_PDU == 17
FAIL_REMOVE_URI_QUERY_PDU == 18
FAIL_SELECT_COAP_AT_INTERFACE == 19
FAIL_REBOOT == 20
FAIL_CONFIGURE_UE == 21
FAIL_START_GET_REQUEST == 22
FAIL_START_DELETE_REQUEST == 23
FAIL_START_PUT_REQUEST == 24
FAIL_START_POST_REQUEST == 25
FAIL_PARSE_RESPONSE == 26
FAIL_GET_CSCON == 27
FAIL_GET_CEREG == 28
FAIL_ENABLE_PSM == 29
FAIL_DISABLE_PSM == 30
FAIL_QUERY_PSM == 31

\* ASCII codes the scanners test for
QUOTE == 34
COMMA == 44
CR == 13
LF == 10

(* ------------------------------------------------------------------ *)
(* Inputs of the public operations and replies of the modem             *)
(* ------------------------------------------------------------------ *)
UInt8 == 0..255

\* a string of n copies of str
RECURSIVE Repeat(_, _)
Repeat(str, n) == IF n = 0 THEN "" ELSE str \o Repeat(str, n - 1)

\* a uri of 201 characters
LongUri == Repeat("u", MAX_URI_LENGTH + 1)

\* lengths a caller can pass that do not fit the uint8_t parameter
WideLengths == {256, 256 + MAX_URI_LENGTH, 256 + MAX_URI_LENGTH + 1, 65535}

\* every value of the uint8_t arguments; the pointers and the wider integers
\* are drawn from a few values
AllInputs ==
    [profile |-> UInt8,
     valid |-> UInt8,
     uri_length |-> UInt8 \cup WideLengths,
     \* uri buffers: the length of their content is independent of uri_length
     uri |-> {"", "coap://h/p", LongUri},
     ipv4 |-> {"10.0.0.1"},
     port |-> {5683},
     send_data |-> {"hi"},
     data_indentifier |-> {0, 6},
     timeout_ms |-> {COAP_STATUS_TIMEOUT, 250},
     function |-> {0, 6, 7},
     value |-> {0, 1, 2},
     response_code |-> {2, 4},
     coap_bytes |-> {QUOTE, 65, 49},
     nuestats_bytes |-> {COMMA, CR, LF, 49, 45},
     reply |-> MaxReply,
     history |-> TRUE,
     scripted |-> FALSE, coap_replies |-> {<<>>}, nuestats_replies |-> {<<>>}]

\* the values around the limits of the argument checks
FewInputs ==
    [profile |-> {NUMBER_OF_PROFILES, NUMBER_OF_PROFILES + 1},
     valid |-> {1, 2},
     uri_length |-> {MAX_URI_LENGTH, MAX_URI_LENGTH + 1},
     uri |-> {"coap://h/p"},
     ipv4 |-> {"10.0.0.1"},
     port |-> {5683},
     send_data |-> {"hi"},
     data_indentifier |-> {0},
     timeout_ms |-> {250},
     function |-> {6},
     value |-> {1},
     response_code |-> {2},
     coap_bytes |-> {QUOTE},
     nuestats_bytes |-> {COMMA},
     reply |-> MaxConcurrentReply,
     history |-> FALSE,
     scripted |-> FALSE, coap_replies |-> {<<>>}, nuestats_replies |-> {<<>>}]

\* a payload of n bytes, none of them a quote: the letters A..Z in turn
Payload(n) == [k \in 1..n |-> 65 + (k % 26)]

\* the bytes that follow the status token of a CoAP reply: CR LF "payload" and
\* what comes behind the closing quote
CoapReply(payload, behind) == <<CR, LF, QUOTE>> \o payload \o <<QUOTE>> \o behind

\* the payload sizes looked at: none, one byte, the largest supported
PayloadSizes == {0, 1, COAP_PAYLOAD_MAX}

\* the characters 0 and 1
TrailingDigits == {48, 49}

\* the replies with the trailing digit right behind the closing quote
RepliesDigitBehindQuote ==
    {CoapReply(Payload(n), <<d>>) : n \in PayloadSizes, d \in TrailingDigits}

\* the replies with a comma between the closing quote and the trailing digit
RepliesDigitBehindComma ==
    {CoapReply(Payload(n), <<COMMA, d>>) : n \in PayloadSizes, d \in TrailingDigits}

\* replies whose payload is longer than supported: one byte too long, and one
\* whose closing quote does not come before the scan gives up
RepliesTooLong ==
    {CoapReply(Payload(COAP_PAYLOAD_MAX + 1), <<COMMA, 48>>),
     <<CR, LF, QUOTE>> \o Payload(COAP_SCAN_CEILING)}

\* the decimal digits of a natural number as characters
RECURSIVE DecimalBytes(_)
DecimalBytes(n) == IF n < 10 THEN <<48 + n>> ELSE DecimalBytes(n \div 10) \o <<48 + (n % 10)>>

\* an integer as the modem prints it
SignedBytes(n) == IF n < 0 THEN <<45>> \o DecimalBytes(-n) ELSE DecimalBytes(n)

\* the fields of a record separated by commas
RECURSIVE CommaSeparated(_)
CommaSeparated(rec) ==
    IF Len(rec) = 1 THEN SignedBytes(rec[1])
    ELSE SignedBytes(rec[1]) \o <<COMMA>> \o CommaSeparated(Tail(rec))

\* the telemetry record signal_power .. rsrq of the example
TelemetryRecord == <<-60, -45, 23, 120, 80, 12345, 3, 15, 6300, 200, -10>>

\* "-60,-45,23,120,80,12345,3,15,6300,200,-10\r\n"
TelemetryLine == CommaSeparated(TelemetryRecord) \o <<CR, LF>>

\* every byte stream of at most n bytes drawn from bytes
RECURSIVE Streams(_, _)
Streams(bytes, n) ==
    IF n = 0 THEN {<<>>}
    ELSE LET shorter == Streams(bytes, n - 1)
         IN  shorter \cup {Append(w, b) : w \in shorter, b \in bytes}

\* every short stream of quotes, letters and digits
RepliesShort == Streams({QUOTE, 65, 49}, MaxScripted)

\* a stream without any quote, longer than the scan reads
RepliesNoQuote == {Payload(COAP_SCAN_CEILING + 3)}

\* n telemetry lines ,1 CR LF
RECURSIVE Fields(_)
Fields(n) == IF n = 0 THEN <<>> ELSE <<COMMA, 49, CR, LF>> \o Fields(n - 1)

\* a dump of one field more than the record has slots
TooManyFields == Fields(NUESTATS_SLOTS + 1)

\* the lines <label>,<integer> CR LF of a record, the label being the letter S
RECURSIVE LabelledLines(_)
LabelledLines(rec) ==
    IF Len(rec) = 0 THEN <<>>
    ELSE <<83, COMMA>> \o SignedBytes(rec[1]) \o <<CR, LF>> \o LabelledLines(Tail(rec))

\* the records sent as labelled lines: all eleven fields, and the first two
LabelledRecords == {TelemetryRecord, SubSeq(TelemetryRecord, 1, 2)}

\* one field of n digits 1 behind a comma
FieldOf(n) == <<COMMA>> \o [k \in 1..n |-> 49] \o <<CR, LF>>

\* a dump longer than the telemetry scan reads
LongDump == [k \in 1..(NUESTATS_SCAN_CEILING + 3) |-> 49]

\* whole replies of the modem, read byte by byte until they are used up; the
\* arguments are the values around the limits of the argument checks
ScanInputs ==
    [FewInputs EXCEPT
        !.timeout_ms = {COAP_STATUS_TIMEOUT},
        !.scripted = TRUE,
        !.coap_replies = RepliesDigitBehindQuote \cup RepliesDigitBehindComma \cup RepliesTooLong
                            \cup RepliesShort \cup RepliesNoQuote,
        !.nuestats_replies = {<<>>, TelemetryLine, TooManyFields, LongDump,
                              FieldOf(NUESTATS_BUFFER_SIZE), FieldOf(NUESTATS_BUFFER_SIZE + 1)}
                                \cup {LabelledLines(rec) : rec \in LabelledRecords}]

\* content an uninitialised stack byte can have
GarbageBytes == {0, 55}
\* bytes that can lie in memory right after the 16-byte field buffer
StackTails == {<<0>>, <<55, 0>>}
\* what a read past the end of a lookup table can yield as a string
GarbageStrings == {"", "?"}
\* a byte of the field buffer that was never written
UNWRITTEN == -1

VARIABLES
    th,        \* per thread: position in the operation it executes and the call's bookkeeping
    smutex,    \* _smutex: 0 when free, otherwise the thread that holds it
    timeout,   \* the timeout of _parser (ms)
    last,      \* the most recent transport call on _parser: who made it and which call
    cs,        \* per thread: locals and caller buffers of parse_coap_response
    ns,        \* per thread: locals and caller buffer of nuestats
    coap_at,   \* history: select_coap_at_interface has returned SARAN2_OK on this object
    rx         \* bytes a finished scan left unread in the receive buffer of _parser,
               \* as long as no flush, recv or getc has touched the buffer since

vars == <<th, smutex, timeout, last, cs, ns, coap_at, rx>>

(* ------------------------------------------------------------------ *)
(* A thread outside any operation                                      *)
(* ------------------------------------------------------------------ *)
IdleThread ==
    [pc |-> "idle", op |-> "none", arg |-> -1, cmd |-> "", fail |-> -1,
     result |-> -1, line |-> "", recvs |-> <<>>, locks |-> 0, unlocks |-> 0,
     io |-> 0, sent |-> 0, given |-> -1]

\* locals of parse_coap_response before the call (src/SaraN2Driver.cpp:457-459)
IdleCoapScan ==
    [status_timeout |-> 0, presult |-> -1, i |-> 0, capture_byte |-> -1,
     more_block_byte |-> -1, buffer_index |-> 0, recv_data |-> <<>>,
     response_code |-> -1, more_block |-> -1, getcs |-> 0, done |-> FALSE,
     wire |-> <<>>]

\* locals of nuestats before the call (src/SaraN2Driver.cpp:859-862)
IdleNuestats ==
    [i |-> 0, capture_byte |-> -1, buffer |-> <<>>, buffer_index |-> 0,
     parameter |-> 0, data |-> <<>>, oob |-> FALSE, getcs |-> 0, done |-> FALSE,
     wire |-> <<>>]

\* SaraN2::SaraN2: the parser is created with a 500 ms timeout, nobody holds _smutex
Init ==
    /\ th = [t \in Threads |-> IdleThread]
    /\ smutex = 0
    /\ timeout = BASE_TIMEOUT
    /\ last = [thr |-> 0, call |-> "none", guarded |-> FALSE, dropped |-> 0]
    /\ cs = [t \in Threads |-> IdleCoapScan]
    /\ ns = [t \in Threads |-> IdleNuestats]
    /\ coap_at = FALSE
    /\ rx = <<>>

(* ------------------------------------------------------------------ *)
(* Helpers                                                              *)
(* ------------------------------------------------------------------ *)
\* printf("%d") of a non-negative integer
Fmt(n) == ToString(n)

Quoted(s) == "\"" \o s \o "\""

\* thread t holds the guard, taken in the operation it executes
Holds(t) == smutex = t /\ th[t].locks > th[t].unlocks

\* thread t makes transport call c on _parser; a flush drops the bytes that
\* wait in the receive buffer
Transport(t, c) ==
    last' = [thr |-> t, call |-> c, guarded |-> Holds(t),
             dropped |-> IF c = "flush" THEN Len(rx) ELSE 0]

\* the bytes of reply w behind the first n, which the scan has taken
Unread(w, n) == IF n < Len(w) THEN SubSeq(w, n + 1, Len(w)) ELSE <<>>

\* what scan s leaves in the receive buffer with its getc: nothing that is
\* known while it goes on, and the unread rest of a whole reply when it is over
LeftBy(in, over, s) == IF in.scripted /\ over THEN Unread(s.wire, s.getcs) ELSE <<>>

\* a flush, recv or getc on _parser: what an earlier scan left in the receive
\* buffer is dropped or read, whoever makes the call
Touched == rx' = <<>>

\* one more transport call in the current operation of t, which moves to pc p
Io(t, p) == [th[t] EXCEPT !.pc = p, !.io = @ + 1]

\* the same for a recv, which returned matched
Recv(t, p, matched) == [Io(t, p) EXCEPT !.recvs = Append(@, matched)]

\* operation o starts and goes on to take the guard; it will send line c and
\* report f when the acknowledgement is missing
Start(t, o, a, c, f) ==
    /\ th[t].pc = "idle"
    /\ th' = [th EXCEPT ![t] = [IdleThread EXCEPT !.pc = "lock", !.op = o, !.arg = a,
                                                  !.cmd = c, !.fail = f]]
    /\ UNCHANGED <<coap_at, rx, smutex, timeout, last, cs, ns>>

\* the argument check made only after the guard was taken and the link flushed
Reject_AfterFlush(t, o, a, r) ==
    /\ th[t].pc = "idle"
    /\ smutex = 0
    /\ th' = [th EXCEPT ![t] = [IdleThread EXCEPT !.pc = "unlock", !.op = o, !.arg = a,
                                                  !.result = r, !.locks = 1, !.io = 1]]
    /\ smutex' = t
    /\ Transport(t, "flush")
    /\ Touched
    /\ UNCHANGED <<coap_at, timeout, cs, ns>>

\* operation o returns code r from its argument check, before anything else
Reject(t, o, a, r) ==
    /\ th[t].pc = "idle"
    /\ th' = [th EXCEPT ![t] = [IdleThread EXCEPT !.pc = "ret", !.op = o, !.arg = a,
                                                  !.result = r]]
    /\ UNCHANGED <<coap_at, rx, smutex, timeout, last, cs, ns>>

(* ------------------------------------------------------------------ *)
(* Argument checks (each operation has its own copy of the test)        *)
(* ------------------------------------------------------------------ *)
\* the check as profile >= NUMBER_OF_PROFILES
select_profile_invalid_ge(profile) == profile >= NUMBER_OF_PROFILES

\* src/SaraN2Driver.cpp:72   if(profile > NUMBER_OF_PROFILES)
select_profile_invalid(profile) == profile > NUMBER_OF_PROFILES

\* the check of load_profile off by one
load_profile_invalid_ge(profile) == profile >= NUMBER_OF_PROFILES

\* src/SaraN2Driver.cpp:101
load_profile_invalid(profile) == profile > NUMBER_OF_PROFILES

\* src/SaraN2Driver.cpp:130
save_profile_invalid(profile) == profile > NUMBER_OF_PROFILES

\* the check with the limit one too high
validity_out_of_bounds_2(valid) == valid > 2

\* src/SaraN2Driver.cpp:160  if(valid > 1)
validity_out_of_bounds(valid) == valid > 1

\* the check as uri_length >= 200
uri_too_long_ge(uri_length) == uri_length >= MAX_URI_LENGTH

\* src/SaraN2Driver.cpp:217  if(uri_length > 200)
uri_too_long(uri_length) == uri_length > MAX_URI_LENGTH

(* ------------------------------------------------------------------ *)
(* The public operations: argument check, command line, failure code    *)
(* ------------------------------------------------------------------ *)
at(t) == Start(t, "at", -1, "AT", FAIL_AT)

select_profile(t, in) ==
    \E profile \in in.profile :
        IF select_profile_invalid(profile)
        THEN Reject(t, "select_profile", profile, INVALID_PROFILE)
        ELSE Start(t, "select_profile", profile,
                   "AT+UCOAP=3," \o Quoted(Fmt(profile)), FAIL_SELECT_PROFILE)

load_profile(t, in) ==
    \E profile \in in.profile :
        IF load_profile_invalid(profile)
        THEN Reject(t, "load_profile", profile, INVALID_PROFILE)
        ELSE Start(t, "load_profile", profile,
                   "AT+UCOAP=5," \o Quoted(Fmt(profile)), FAIL_LOAD_PROFILE)

save_profile(t, in) ==
    \E profile \in in.profile :
        IF save_profile_invalid(profile)
        THEN Reject(t, "save_profile", profile, INVALID_PROFILE)
        ELSE Start(t, "save_profile", profile,
                   "AT+UCOAP=6," \o Quoted(Fmt(profile)), FAIL_SAVE_PROFILE)

set_profile_validity(t, in) ==
    \E valid \in in.valid :
        IF validity_out_of_bounds(valid)
        THEN Reject(t, "set_profile_validity", valid, VALUE_OUT_OF_BOUNDS)
        ELSE Start(t, "set_profile_validity", valid,
                   "AT+UCOAP=4," \o Quoted(Fmt(valid)), FAIL_SET_PROFILE_VALIDITY)

set_coap_ip_port(t, in) ==
    \E ipv4 \in in.ipv4, port \in in.port :
        Start(t, "set_coap_ip_port", port,
              "AT+UCOAP=0," \o Quoted(ipv4) \o "," \o Quoted(Fmt(port)), FAIL_SET_COAP_IP_PORT)

\* a conversion that holds a value too large at the largest uint8_t
ToUInt8_Saturating(n) == IF n > 255 THEN 255 ELSE n

\* the conversion of an integer argument to a uint8_t parameter
ToUInt8(n) == n % 256

\* the line is built from the NUL-terminated content of uri; uri_length is only
\* tested, and it is what the uint8_t parameter holds of the length the caller
\* passed (src/SaraN2Driver.h:628)
set_coap_uri(t, in) ==
    \E uri \in in.uri, length \in in.uri_length :
        LET uri_length == ToUInt8(length)
            call == [IdleThread EXCEPT !.op = "set_coap_uri", !.arg = uri_length,
                                       !.given = length]
        IN  /\ th[t].pc = "idle"
            /\ th' = [th EXCEPT ![t] =
                        IF uri_too_long(uri_length)
                        THEN [call EXCEPT !.pc = "ret", !.result = URI_TOO_LONG]
                        ELSE [call EXCEPT !.pc = "lock",
                                          !.cmd = "AT+UCOAP=1," \o Quoted(uri),
                                          !.fail = FAIL_SET_COAP_URI]]
            /\ UNCHANGED <<coap_at, rx, smutex, timeout, last, cs, ns>>

\* AT+UCOAP=2,"<opt>","<flag>"
PduHeaderLine(opt, flag) == "AT+UCOAP=2," \o Quoted(opt) \o "," \o Quoted(flag)

pdu_header_add_uri_host(t) ==
    Start(t, "pdu_header_add_uri_host", -1, PduHeaderLine("0", "1"), FAIL_ADD_URI_HOST_PDU)

\* the operation naming the option of its host counterpart
pdu_header_add_uri_port_HostOption(t) ==
    Start(t, "pdu_header_add_uri_port", -1, PduHeaderLine("0", "1"), FAIL_ADD_URI_PORT_PDU)

pdu_header_add_uri_port(t) ==
    Start(t, "pdu_header_add_uri_port", -1, PduHeaderLine("1", "1"), FAIL_ADD_URI_PORT_PDU)

pdu_header_add_uri_path(t) ==
    Start(t, "pdu_header_add_uri_path", -1, PduHeaderLine("2", "1"), FAIL_ADD_URI_PATH_PDU)

pdu_header_add_uri_query(t) ==
    Start(t, "pdu_header_add_uri_query", -1, PduHeaderLine("3", "1"), FAIL_ADD_URI_QUERY_PDU)

\* the operation reporting the code of its add counterpart
pdu_header_remove_uri_host_AddCode(t) ==
    Start(t, "pdu_header_remove_uri_host", -1, PduHeaderLine("0", "0"), FAIL_ADD_URI_HOST_PDU)

pdu_header_remove_uri_host(t) ==
    Start(t, "pdu_header_remove_uri_host", -1, PduHeaderLine("0", "0"), FAIL_REMOVE_URI_HOST_PDU)

pdu_header_remove_uri_port(t) ==
    Start(t, "pdu_header_remove_uri_port", -1, PduHeaderLine("1", "0"), FAIL_REMOVE_URI_PORT_PDU)

pdu_header_remove_uri_path(t) ==
    Start(t, "pdu_header_remove_uri_path", -1, PduHeaderLine("2", "0"), FAIL_REMOVE_URI_PATH_PDU)

pdu_header_remove_uri_query(t) ==
    Start(t, "pdu_header_remove_uri_query", -1, PduHeaderLine("3", "0"), FAIL_REMOVE_URI_QUERY_PDU)

select_coap_at_interface(t) ==
    Start(t, "select_coap_at_interface", -1, "AT+USELCP=1", FAIL_SELECT_COAP_AT_INTERFACE)

coap_get(t) == Start(t, "coap_get", -1, "AT+UCOAPC=1", FAIL_START_GET_REQUEST)

coap_delete(t) == Start(t, "coap_delete", -1, "AT+UCOAPC=2", FAIL_START_DELETE_REQUEST)

coap_put(t, in) ==
    \E send_data \in in.send_data, data_indentifier \in in.data_indentifier :
        Start(t, "coap_put", data_indentifier,
              "AT+UCOAPC=3," \o Quoted(send_data) \o "," \o Fmt(data_indentifier),
              FAIL_START_PUT_REQUEST)

coap_post(t, in) ==
    \E send_data \in in.send_data, data_indentifier \in in.data_indentifier :
        Start(t, "coap_post", data_indentifier,
              "AT+UCOAPC=4," \o Quoted(send_data) \o "," \o Fmt(data_indentifier),
              FAIL_START_POST_REQUEST)

reboot_module(t) == Start(t, "reboot_module", -1, "AT+NRB", FAIL_REBOOT)

enable_power_save_mode(t) ==
    Start(t, "enable_power_save_mode", -1, "AT+CPSMS=1", FAIL_ENABLE_PSM)

disable_power_save_mode(t) ==
    Start(t, "disable_power_save_mode", -1, "AT+CPSMS=0", FAIL_DISABLE_PSM)

query_power_save_mode(t) ==
    Start(t, "query_power_save_mode", -1, "AT+CPSMS?", FAIL_QUERY_PSM)

\* the lookup tables of src/SaraN2Driver.h:899-907, indexed from 0
config_functions ==
    <<"AUTOCONNECT", "CR_0354_0338_SCRAMBLING", "CR_0859_SI_AVOID", "COMBINE_ATTACH",
      "CELL_RESELECTION", "ENABLE_BIP", "NAS_SIM_POWER_SAVING_ENABLE">>

config_values == <<"TRUE", "FALSE">>

\* table[index]; an index past the end reads whatever lies behind the table
TableReads(table, index) ==
    IF index < Len(table) THEN {table[index + 1]} ELSE GarbageStrings

\* no argument check: both indexes are used as they come
configure_ue(t, in) ==
    \E function \in in.function, value \in in.value :
        \E f \in TableReads(config_functions, function), v \in TableReads(config_values, value) :
            Start(t, "configure_ue", function,
                  "AT+NCONFIG=" \o Quoted(f) \o "," \o Quoted(v), FAIL_CONFIGURE_UE)

cereg(t) == Start(t, "cereg", -1, "AT+CEREG?", FAIL_GET_CEREG)

cscon(t) == Start(t, "cscon", -1, "AT+CSCON?", FAIL_GET_CSCON)

\* buffer[16] is declared without an initialiser
nuestats(t) ==
    /\ ns' = [ns EXCEPT ![t] = [IdleNuestats EXCEPT
                                  !.buffer = [k \in 1..NUESTATS_BUFFER_SIZE |-> UNWRITTEN]]]
    /\ th[t].pc = "idle"
    /\ th' = [th EXCEPT ![t] = [IdleThread EXCEPT !.pc = "lock", !.op = "nuestats",
                                                  !.cmd = "AT+NUESTATS"]]
    /\ UNCHANGED <<coap_at, rx, smutex, timeout, last, cs>>

\* parse_coap_response is public: a user can call it on its own, and it takes no guard
parse_coap_response(t, in) ==
    /\ th[t].pc = "idle"
    /\ \E timeout_ms \in in.timeout_ms :
         cs' = [cs EXCEPT ![t] = [IdleCoapScan EXCEPT !.status_timeout = timeout_ms]]
    /\ th' = [th EXCEPT ![t] = [IdleThread EXCEPT !.pc = "p_set_timeout",
                                                  !.op = "parse_coap_response"]]
    /\ UNCHANGED <<coap_at, rx, smutex, timeout, last, ns>>

CoapVerbs == {"coap_get", "coap_delete", "coap_put", "coap_post"}

QueryOps == {"query_power_save_mode", "cereg", "cscon"}

(* ------------------------------------------------------------------ *)
(* The guard                                                            *)
(* ------------------------------------------------------------------ *)
\* _smutex.lock(): blocks while another thread holds the guard
Lock(t) ==
    /\ th[t].pc = "lock"
    /\ smutex = 0
    /\ smutex' = t
    /\ th' = [th EXCEPT ![t].pc = "flush", ![t].locks = @ + 1]
    /\ UNCHANGED <<coap_at, rx, timeout, last, cs, ns>>

\* where an operation goes on after _smutex.unlock(): nuestats still sets the
\* timeout back (src/SaraN2Driver.cpp:905-907), every other operation returns
AfterUnlock(o) == IF o = "nuestats" THEN "n_set500" ELSE "ret"

\* _smutex.unlock()
Unlock(t) ==
    /\ th[t].pc = "unlock"
    /\ smutex' = 0
    /\ th' = [th EXCEPT ![t].pc = AfterUnlock(th[t].op), ![t].unlocks = @ + 1]
    /\ UNCHANGED <<coap_at, rx, timeout, last, cs, ns>>

\* the operation returns to its caller; the call's locals are gone. The driver
\* keeps nothing of the call; where in.history is set the model notes that the
\* CoAP AT interface was selected
Return(t, in) ==
    /\ th[t].pc = "ret"
    /\ th' = [th EXCEPT ![t] = IdleThread]
    /\ cs' = [cs EXCEPT ![t] = IdleCoapScan]
    /\ ns' = [ns EXCEPT ![t] = IdleNuestats]
    /\ coap_at' = (coap_at \/ (in.history /\ th[t].op = "select_coap_at_interface"
                                          /\ th[t].result = SARAN2_OK))
    /\ UNCHANGED <<rx, smutex, timeout, last>>

(* ------------------------------------------------------------------ *)
(* flush, send and the acknowledgement                                  *)
(* ------------------------------------------------------------------ *)
\* a flush that leaves the receive buffer as it is
Flush_KeepsBytes(t) ==
    /\ th[t].pc = "flush"
    /\ th' = [th EXCEPT ![t] = Io(t, "send")]
    /\ Transport(t, "flush")
    /\ UNCHANGED <<coap_at, rx, smutex, timeout, cs, ns>>

\* _parser->flush()
Flush(t) ==
    /\ th[t].pc = "flush"
    /\ th' = [th EXCEPT ![t] = Io(t, "send")]
    /\ Transport(t, "flush")
    /\ Touched
    /\ UNCHANGED <<coap_at, smutex, timeout, cs, ns>>

\* what an operation waits for after its command line
AfterSend(o) ==
    CASE o \in QueryOps -> "recv_val"
      [] o = "reboot_module" -> "recv_rebooting"
      [] o = "nuestats" -> "n_set100"
      [] OTHER -> "recv_ok"

\* _parser->send(...)
Send(t) ==
    /\ th[t].pc = "send"
    /\ th' = [th EXCEPT ![t] = [Io(t, AfterSend(th[t].op)) EXCEPT
                                   !.line = th[t].cmd, !.sent = @ + 1]]
    /\ Transport(t, "send")
    /\ UNCHANGED <<coap_at, rx, smutex, timeout, cs, ns>>

\* the failure branch returning without _smutex.unlock()
AfterRecvOK_NoUnlock(r, matched) ==
    IF ~matched THEN [r EXCEPT !.pc = "ret", !.result = r.fail]
    ELSE IF r.op \in CoapVerbs THEN [r EXCEPT !.pc = "p_set_timeout"]
    ELSE [r EXCEPT !.pc = "unlock", !.result = SARAN2_OK]

\* the scan run although the acknowledgement is missing
AfterRecvOK_ScanAnyway(r, matched) ==
    IF r.op \in CoapVerbs THEN [r EXCEPT !.pc = "p_set_timeout"]
    ELSE IF ~matched THEN [r EXCEPT !.pc = "unlock", !.result = r.fail]
    ELSE [r EXCEPT !.pc = "unlock", !.result = SARAN2_OK]

\* the command sent once more when the acknowledgement is missing
AfterRecvOK_Retry(r, matched) ==
    IF ~matched /\ r.sent < 2 THEN [r EXCEPT !.pc = "send"]
    ELSE IF ~matched THEN [r EXCEPT !.pc = "unlock", !.result = r.fail]
    ELSE IF r.op \in CoapVerbs THEN [r EXCEPT !.pc = "p_set_timeout"]
    ELSE [r EXCEPT !.pc = "unlock", !.result = SARAN2_OK]

\* the thread after recv("OK") of its operation returned matched
AfterRecvOK(r, matched) ==
    IF ~matched THEN [r EXCEPT !.pc = "unlock", !.result = r.fail]
    ELSE IF r.op \in CoapVerbs THEN [r EXCEPT !.pc = "p_set_timeout"]
    ELSE [r EXCEPT !.pc = "unlock", !.result = SARAN2_OK]

\* if(!_parser->recv("OK")) { unlock; return FAIL_x; } ... unlock; return SARAN2_OK;
\* in a CoAP verb a matched OK is followed by parse_coap_response with the
\* default status timeout (src/SaraN2Driver.h:697)
RecvOK(t) ==
    /\ th[t].pc = "recv_ok"
    /\ \E matched \in BOOLEAN :
         th' = [th EXCEPT ![t] = AfterRecvOK(Recv(t, "recv_ok", matched), matched)]
    /\ cs' = IF th'[t].pc = "p_set_timeout"
             THEN [cs EXCEPT ![t] = [IdleCoapScan EXCEPT !.status_timeout = COAP_STATUS_TIMEOUT]]
             ELSE cs
    /\ Transport(t, "recv")
    /\ Touched
    /\ UNCHANGED <<coap_at, smutex, timeout, ns>>

\* the failure branch of a query returning without _smutex.unlock()
AfterRecvVal_NoUnlock(r, matched) ==
    IF matched THEN [r EXCEPT !.pc = "recv_ok"]
    ELSE [r EXCEPT !.pc = "ret", !.result = r.fail]

\* the acknowledgement awaited although the value line is missing
AfterRecvVal_AwaitsOkAnyway(r, matched) == [r EXCEPT !.pc = "recv_ok"]

\* the thread after the value line of a query was awaited
AfterRecvVal(r, matched) ==
    IF matched THEN [r EXCEPT !.pc = "recv_ok"]
    ELSE [r EXCEPT !.pc = "unlock", !.result = r.fail]

\* if(!_parser->recv("+CPSMS: %d", ...) || !_parser->recv("OK")): the first recv
RecvVal(t) ==
    /\ th[t].pc = "recv_val"
    /\ \E matched \in BOOLEAN :
         th' = [th EXCEPT ![t] = AfterRecvVal(Recv(t, "recv_val", matched), matched)]
    /\ Transport(t, "recv")
    /\ Touched
    /\ UNCHANGED <<coap_at, smutex, timeout, cs, ns>>

(* ------------------------------------------------------------------ *)
(* parse_coap_response (src/SaraN2Driver.cpp:449-513)                   *)
(* ------------------------------------------------------------------ *)
\* memcpy(&buf[index], &byte, 1) on a buffer of which `buf` is the written part
WriteByte(buf, index, byte) ==
    IF index < Len(buf) THEN [buf EXCEPT ![index + 1] = byte] ELSE Append(buf, byte)

\* the scan taking a third quote as the start of a payload again
CoapScanStep_Reopens(s, byte) ==
    IF byte = -1 THEN [s EXCEPT !.done = TRUE]
    ELSE IF byte = QUOTE
    THEN IF s.capture_byte < 0
         THEN [s EXCEPT !.capture_byte = s.i + 1, !.buffer_index = 0, !.i = @ + 1]
         ELSE [s EXCEPT !.more_block_byte = s.i + 2, !.capture_byte = -2, !.i = @ + 1]
    ELSE LET c == IF s.capture_byte = s.i
                  THEN [s EXCEPT !.recv_data = WriteByte(@, s.buffer_index, byte),
                                 !.buffer_index = @ + 1,
                                 !.capture_byte = @ + 1]
                  ELSE s
         IN  IF c.more_block_byte = s.i
             THEN [c EXCEPT !.more_block = byte, !.done = TRUE]
             ELSE [c EXCEPT !.i = @ + 1]

\* the scan going on after the trailing value was taken
CoapScanStep_NoBreak(s, byte) ==
    IF byte = -1 THEN [s EXCEPT !.done = TRUE]
    ELSE IF byte = QUOTE
    THEN IF s.capture_byte = -1
         THEN [s EXCEPT !.capture_byte = s.i + 1, !.buffer_index = 0, !.i = @ + 1]
         ELSE [s EXCEPT !.more_block_byte = s.i + 2, !.capture_byte = -2, !.i = @ + 1]
    ELSE LET c == IF s.capture_byte = s.i
                  THEN [s EXCEPT !.recv_data = WriteByte(@, s.buffer_index, byte),
                                 !.buffer_index = @ + 1,
                                 !.capture_byte = @ + 1]
                  ELSE s
         IN  IF c.more_block_byte = s.i
             THEN [c EXCEPT !.more_block = byte, !.i = @ + 1]
             ELSE [c EXCEPT !.i = @ + 1]

\* the scan taking the byte right behind the closing quote as the trailing value
CoapScanStep_OffsetOne(s, byte) ==
    IF byte = -1 THEN [s EXCEPT !.done = TRUE]
    ELSE IF byte = QUOTE
    THEN IF s.capture_byte = -1
         THEN [s EXCEPT !.capture_byte = s.i + 1, !.buffer_index = 0, !.i = @ + 1]
         ELSE [s EXCEPT !.more_block_byte = s.i + 1, !.capture_byte = -2, !.i = @ + 1]
    ELSE LET c == IF s.capture_byte = s.i
                  THEN [s EXCEPT !.recv_data = WriteByte(@, s.buffer_index, byte),
                                 !.buffer_index = @ + 1,
                                 !.capture_byte = @ + 1]
                  ELSE s
         IN  IF c.more_block_byte = s.i
             THEN [c EXCEPT !.more_block = byte, !.done = TRUE]
             ELSE [c EXCEPT !.i = @ + 1]

\* one pass through the body of the for loop with the byte getc returned;
\* done is set where the code breaks, i is advanced where it goes round again
CoapScanStep(s, byte) ==
    IF byte = -1 THEN [s EXCEPT !.done = TRUE]
    ELSE IF byte = QUOTE
    THEN IF s.capture_byte = -1
         THEN [s EXCEPT !.capture_byte = s.i + 1, !.buffer_index = 0, !.i = @ + 1]
         ELSE [s EXCEPT !.more_block_byte = s.i + 2, !.capture_byte = -2, !.i = @ + 1]
    ELSE LET c == IF s.capture_byte = s.i
                  THEN [s EXCEPT !.recv_data = WriteByte(@, s.buffer_index, byte),
                                 !.buffer_index = @ + 1,
                                 !.capture_byte = @ + 1]
                  ELSE s
         IN  IF c.more_block_byte = s.i
             THEN [c EXCEPT !.more_block = byte, !.done = TRUE]
             ELSE [c EXCEPT !.i = @ + 1]

\* the loop without its ceiling
CoapScanOver_NoCeiling(s) == s.done

\* the scan is over: the loop broke or i reached the ceiling
CoapScanOver(s) == s.done \/ s.i >= COAP_SCAN_CEILING

\* what getc can return to a scan that has made n calls so far, when the modem
\* sends at most reply bytes: one of the bytes, or -1 after the timeout
Getc(n, bytes, reply) == (IF n < reply THEN bytes ELSE {}) \cup {-1}

\* the reply a scan reads from: it is there when the first getc is made
Wire(s, replies) == IF s.getcs = 0 THEN replies ELSE {s.wire}

\* what getc returns on its call number n + 1 when the reply is w: the next
\* byte of w, or -1 after the timeout when w is used up
GetcFrom(w, n) == IF n < Len(w) THEN w[n + 1] ELSE -1

\* _parser->set_timeout(timeout)
ParseSetTimeout(t) ==
    /\ th[t].pc = "p_set_timeout"
    /\ timeout' = cs[t].status_timeout
    /\ th' = [th EXCEPT ![t] = Io(t, "p_recv")]
    /\ Transport(t, "set_timeout")
    /\ UNCHANGED <<coap_at, rx, smutex, cs, ns>>

\* if(_parser->recv("+UCOAPCD: %d", &response_code))
ParseRecvStatus(t, in) ==
    /\ th[t].pc = "p_recv"
    /\ \/ \E code \in in.response_code :
            /\ cs' = [cs EXCEPT ![t].response_code = code]
            /\ th' = [th EXCEPT ![t] = Recv(t, "p_set100", TRUE)]
       \/ /\ cs' = [cs EXCEPT ![t].presult = FAIL_PARSE_RESPONSE]
          /\ th' = [th EXCEPT ![t] = Recv(t, "p_set500", FALSE)]
    /\ Transport(t, "recv")
    /\ Touched
    /\ UNCHANGED <<coap_at, smutex, timeout, ns>>

\* _parser->set_timeout(100) before the byte scan
ParseSetScanTimeout(t) ==
    /\ th[t].pc = "p_set100"
    /\ timeout' = SCAN_TIMEOUT
    /\ th' = [th EXCEPT ![t] = Io(t, "p_getc")]
    /\ Transport(t, "set_timeout")
    /\ UNCHANGED <<coap_at, rx, smutex, cs, ns>>

\* a scan that fails when it ends without a closing quote
ParseGetc_NeedsClosingQuote(t, in) ==
    /\ th[t].pc = "p_getc"
    /\ \E w \in Wire(cs[t], in.coap_replies) :
       \E byte \in IF in.scripted THEN {GetcFrom(w, cs[t].getcs)}
                    ELSE Getc(cs[t].getcs, in.coap_bytes, in.reply) :
         LET s == [CoapScanStep(cs[t], byte) EXCEPT !.getcs = @ + 1, !.wire = w]
             r == IF s.more_block_byte = -1 THEN FAIL_PARSE_RESPONSE ELSE SARAN2_OK
         IN  /\ cs' = [cs EXCEPT ![t] = IF CoapScanOver(s) THEN [s EXCEPT !.presult = r] ELSE s]
             /\ th' = [th EXCEPT ![t] = Io(t, IF CoapScanOver(s) THEN "p_set500" ELSE "p_getc")]
    /\ Transport(t, "getc")
    /\ rx' = LeftBy(in, th'[t].pc = "p_set500", cs'[t])
    /\ UNCHANGED <<coap_at, smutex, timeout, ns>>

\* int byte = _parser->getc(); and the rest of the loop body
ParseGetc(t, in) ==
    /\ th[t].pc = "p_getc"
    /\ \E w \in Wire(cs[t], in.coap_replies) :
       \E byte \in IF in.scripted THEN {GetcFrom(w, cs[t].getcs)}
                    ELSE Getc(cs[t].getcs, in.coap_bytes, in.reply) :
         LET s == [CoapScanStep(cs[t], byte) EXCEPT !.getcs = @ + 1, !.wire = w]
         IN  /\ cs' = [cs EXCEPT ![t] = IF CoapScanOver(s)
                                        THEN [s EXCEPT !.presult = SARAN2_OK] ELSE s]
             /\ th' = [th EXCEPT ![t] = Io(t, IF CoapScanOver(s) THEN "p_set500" ELSE "p_getc")]
    /\ Transport(t, "getc")
    /\ rx' = LeftBy(in, th'[t].pc = "p_set500", cs'[t])
    /\ UNCHANGED <<coap_at, smutex, timeout, ns>>

\* a verb that does not look at what parse_coap_response returned
AfterParse_AlwaysOk(r, presult) ==
    IF r.op = "parse_coap_response" THEN [r EXCEPT !.pc = "ret", !.result = presult]
    ELSE [r EXCEPT !.pc = "unlock", !.result = SARAN2_OK]

\* the thread after parse_coap_response returned presult: a verb unlocks and
\* reports FAIL_PARSE_RESPONSE or SARAN2_OK, a direct call is over
AfterParse(r, presult) ==
    IF r.op = "parse_coap_response" THEN [r EXCEPT !.pc = "ret", !.result = presult]
    ELSE IF presult # SARAN2_OK THEN [r EXCEPT !.pc = "unlock", !.result = FAIL_PARSE_RESPONSE]
    ELSE [r EXCEPT !.pc = "unlock", !.result = SARAN2_OK]

\* _parser->set_timeout(500) on both ways out, then the return
ParseRestoreTimeout(t) ==
    /\ th[t].pc = "p_set500"
    /\ timeout' = BASE_TIMEOUT
    /\ th' = [th EXCEPT ![t] = AfterParse(Io(t, "p_set500"), cs[t].presult)]
    /\ Transport(t, "set_timeout")
    /\ UNCHANGED <<coap_at, rx, smutex, cs, ns>>

(* ------------------------------------------------------------------ *)
(* reboot_module (src/SaraN2Driver.cpp:666-695)                         *)
(* ------------------------------------------------------------------ *)
\* the banner awaited although REBOOTING did not come
RebootRecvRebooting_WaitsAnyway(t) ==
    /\ th[t].pc = "recv_rebooting"
    /\ \E matched \in BOOLEAN : th' = [th EXCEPT ![t] = Recv(t, "rb_set10000", matched)]
    /\ Transport(t, "recv")
    /\ Touched
    /\ UNCHANGED <<coap_at, smutex, timeout, cs, ns>>

\* if(_parser->recv("REBOOTING")) ... else { unlock; return FAIL_REBOOT; }
RebootRecvRebooting(t) ==
    /\ th[t].pc = "recv_rebooting"
    /\ \/ th' = [th EXCEPT ![t] = Recv(t, "rb_set10000", TRUE)]
       \/ th' = [th EXCEPT ![t] = [Recv(t, "unlock", FALSE) EXCEPT !.result = FAIL_REBOOT]]
    /\ Transport(t, "recv")
    /\ Touched
    /\ UNCHANGED <<coap_at, smutex, timeout, cs, ns>>

\* _parser->set_timeout(10000)
RebootSetTimeout(t) ==
    /\ th[t].pc = "rb_set10000"
    /\ timeout' = REBOOT_TIMEOUT
    /\ th' = [th EXCEPT ![t] = Io(t, "rb_recv_ublox")]
    /\ Transport(t, "set_timeout")
    /\ UNCHANGED <<coap_at, rx, smutex, cs, ns>>

\* the failure branch without set_timeout(500)
RebootRecvBanner_NoRestore(t) ==
    /\ th[t].pc = "rb_recv_ublox"
    /\ \/ th' = [th EXCEPT ![t] = Recv(t, "rb_recv_ok", TRUE)]
       \/ th' = [th EXCEPT ![t] = [Recv(t, "unlock", FALSE) EXCEPT !.result = FAIL_REBOOT]]
    /\ Transport(t, "recv")
    /\ Touched
    /\ UNCHANGED <<coap_at, smutex, timeout, cs, ns>>

\* _parser->recv("u-blox") && ...: OK is awaited only after the banner
RebootRecvBanner(t) ==
    /\ th[t].pc = "rb_recv_ublox"
    /\ \/ th' = [th EXCEPT ![t] = Recv(t, "rb_recv_ok", TRUE)]
       \/ th' = [th EXCEPT ![t] = [Recv(t, "rb_set500", FALSE) EXCEPT !.result = FAIL_REBOOT]]
    /\ Transport(t, "recv")
    /\ Touched
    /\ UNCHANGED <<coap_at, smutex, timeout, cs, ns>>

\* the outcome of the last wait not looked at
RebootRecvReady_AlwaysOk(t) ==
    /\ th[t].pc = "rb_recv_ok"
    /\ \E matched \in BOOLEAN :
         th' = [th EXCEPT ![t] = [Recv(t, "rb_set500", matched) EXCEPT !.result = SARAN2_OK]]
    /\ Transport(t, "recv")
    /\ Touched
    /\ UNCHANGED <<coap_at, smutex, timeout, cs, ns>>

\* ... && _parser->recv("OK")
RebootRecvReady(t) ==
    /\ th[t].pc = "rb_recv_ok"
    /\ \E matched \in BOOLEAN :
         th' = [th EXCEPT ![t] = [Recv(t, "rb_set500", matched) EXCEPT
                                    !.result = IF matched THEN SARAN2_OK ELSE FAIL_REBOOT]]
    /\ Transport(t, "recv")
    /\ Touched
    /\ UNCHANGED <<coap_at, smutex, timeout, cs, ns>>

\* the branches going to the unlock with the timeout left as it is
RebootRestoreTimeout_Skipped(t) ==
    /\ th[t].pc = "rb_set500"
    /\ th' = [th EXCEPT ![t] = Io(t, "unlock")]
    /\ Transport(t, "set_timeout")
    /\ UNCHANGED <<coap_at, rx, smutex, timeout, cs, ns>>

\* _parser->set_timeout(500) in both branches, before the unlock
RebootRestoreTimeout(t) ==
    /\ th[t].pc = "rb_set500"
    /\ timeout' = BASE_TIMEOUT
    /\ th' = [th EXCEPT ![t] = Io(t, "unlock")]
    /\ Transport(t, "set_timeout")
    /\ UNCHANGED <<coap_at, rx, smutex, cs, ns>>

(* ------------------------------------------------------------------ *)
(* nuestats (src/SaraN2Driver.cpp:851-910)                              *)
(* ------------------------------------------------------------------ *)
IsSpace(c) == c \in {9, 10, 11, 12, 13, 32}

IsDigit(c) == c >= 48 /\ c <= 57

RECURSIVE SkipSpace(_, _)
SkipSpace(s, k) == IF k <= Len(s) /\ IsSpace(s[k]) THEN SkipSpace(s, k + 1) ELSE k

\* the digits of s from position k on, accumulated with the sign applied and
\* held at INT_MAX / INT_MIN on overflow, as strtol does
RECURSIVE Digits(_, _, _, _)
Digits(s, k, acc, neg) ==
    IF k <= Len(s) /\ IsDigit(s[k])
    THEN LET d == s[k] - 48
         IN  IF neg
             THEN IF acc < -INT_MAX_DIV_10 \/ (acc = -INT_MAX_DIV_10 /\ d > 8)
                  THEN -INT_MAX - 1
                  ELSE Digits(s, k + 1, acc * 10 - d, neg)
             ELSE IF acc > INT_MAX_DIV_10 \/ (acc = INT_MAX_DIV_10 /\ d > 7)
                  THEN INT_MAX
                  ELSE Digits(s, k + 1, acc * 10 + d, neg)
    ELSE acc

\* atoi on the bytes found at the address of the buffer: white space, an
\* optional sign, then digits up to the first byte that is no digit
Atoi(s) ==
    LET k == SkipSpace(s, 1)
        signed == k <= Len(s) /\ s[k] \in {43, 45}
    IN  Digits(s, IF signed THEN k + 1 ELSE k, 0, signed /\ s[k] = 45)

\* memcpy(&data[4 * parameter], &value, sizeof(int)) on the 44-byte record
WriteSlot(s, value) ==
    IF s.parameter < NUESTATS_SLOTS
    THEN [s EXCEPT !.data = IF s.parameter < Len(@) THEN [@ EXCEPT ![s.parameter + 1] = value]
                            ELSE Append(@, value)]
    ELSE [s EXCEPT !.oob = TRUE]

\* memcpy(&buffer[buffer_index], &byte, 1) on the 16-byte field buffer
WriteField(s, byte) ==
    IF s.buffer_index < NUESTATS_BUFFER_SIZE
    THEN [s EXCEPT !.buffer[s.buffer_index + 1] = byte]
    ELSE [s EXCEPT !.oob = TRUE]

\* the bytes atoi finds in the buffer when the bytes never written hold g
Content(buffer, g) == [k \in 1..Len(buffer) |-> IF buffer[k] = UNWRITTEN THEN g ELSE buffer[k]]

\* one pass through the body of the for loop with the byte getc returned; tail
\* is what atoi reads: the buffer and what lies behind it in memory
NuestatsStep(s, byte, tail) ==
    IF byte = -1 THEN [s EXCEPT !.done = TRUE]
    ELSE IF byte = COMMA
    THEN [s EXCEPT !.capture_byte = s.i + 1, !.buffer_index = 0, !.i = @ + 1]
    ELSE IF byte = CR /\ s.buffer_index > 0
    THEN [WriteSlot(s, Atoi(tail)) EXCEPT
            !.buffer = [k \in 1..NUESTATS_BUFFER_SIZE |-> 0],
            !.parameter = @ + 1,
            !.capture_byte = -1,
            !.buffer_index = 0,
            !.i = @ + 1]
    ELSE IF byte = LF
    THEN [s EXCEPT !.i = @ + 1]
    ELSE IF s.capture_byte = s.i
    THEN [WriteField(s, byte) EXCEPT !.buffer_index = (@ + 1) % 256,
                                     !.capture_byte = @ + 1,
                                     !.i = @ + 1]
    ELSE [s EXCEPT !.i = @ + 1]

NuestatsScanOver(s) == s.done \/ s.i >= NUESTATS_SCAN_CEILING

\* _parser->set_timeout(100) after the command line
NuestatsSetScanTimeout(t) ==
    /\ th[t].pc = "n_set100"
    /\ timeout' = SCAN_TIMEOUT
    /\ th' = [th EXCEPT ![t] = Io(t, "n_getc")]
    /\ Transport(t, "set_timeout")
    /\ UNCHANGED <<coap_at, rx, smutex, cs, ns>>

\* int byte = _parser->getc(); and the rest of the loop body; after the loop
\* the guard is released
NuestatsGetc(t, in) ==
    /\ th[t].pc = "n_getc"
    /\ \E w \in Wire(ns[t], in.nuestats_replies) :
       \E byte \in IF in.scripted THEN {GetcFrom(w, ns[t].getcs)}
                    ELSE Getc(ns[t].getcs, in.nuestats_bytes, in.reply),
          g \in GarbageBytes, tail \in StackTails :
         LET s == [NuestatsStep(ns[t], byte, Content(ns[t].buffer, g) \o tail)
                     EXCEPT !.getcs = @ + 1, !.wire = w]
         IN  /\ ns' = [ns EXCEPT ![t] = s]
             /\ th' = [th EXCEPT ![t] = Io(t, IF NuestatsScanOver(s) THEN "unlock" ELSE "n_getc")]
    /\ Transport(t, "getc")
    /\ rx' = LeftBy(in, th'[t].pc = "unlock", ns'[t])
    /\ UNCHANGED <<coap_at, smutex, timeout, cs>>

\* _parser->set_timeout(500) after _smutex.unlock(), then return SARAN2_OK
NuestatsRestoreTimeout(t) ==
    /\ th[t].pc = "n_set500"
    /\ timeout' = BASE_TIMEOUT
    /\ th' = [th EXCEPT ![t] = [Io(t, "ret") EXCEPT !.result = SARAN2_OK]]
    /\ Transport(t, "set_timeout")
    /\ UNCHANGED <<coap_at, rx, smutex, cs, ns>>

(* ------------------------------------------------------------------ *)
(* The driver used by several threads                                   *)
(* ------------------------------------------------------------------ *)
\* a thread calls a public operation with arguments drawn from in
Call(t, in) ==
    \/ at(t)
    \/ select_profile(t, in)
    \/ load_profile(t, in)
    \/ save_profile(t, in)
    \/ set_profile_validity(t, in)
    \/ set_coap_ip_port(t, in)
    \/ set_coap_uri(t, in)
    \/ pdu_header_add_uri_host(t)
    \/ pdu_header_add_uri_port(t)
    \/ pdu_header_add_uri_path(t)
    \/ pdu_header_add_uri_query(t)
    \/ pdu_header_remove_uri_host(t)
    \/ pdu_header_remove_uri_port(t)
    \/ pdu_header_remove_uri_path(t)
    \/ pdu_header_remove_uri_query(t)
    \/ select_coap_at_interface(t)
    \/ parse_coap_response(t, in)
    \/ coap_get(t)
    \/ coap_delete(t)
    \/ coap_put(t, in)
    \/ coap_post(t, in)
    \/ reboot_module(t)
    \/ enable_power_save_mode(t)
    \/ disable_power_save_mode(t)
    \/ query_power_save_mode(t)
    \/ configure_ue(t, in)
    \/ cereg(t)
    \/ cscon(t)
    \/ nuestats(t)

\* a thread that is inside an operation and not waiting for the guard goes on;
\* the replies of the modem are drawn from in
Proceed(t, in) ==
    \/ Flush(t)
    \/ Send(t)
    \/ RecvOK(t)
    \/ RecvVal(t)
    \/ ParseSetTimeout(t)
    \/ ParseRecvStatus(t, in)
    \/ ParseSetScanTimeout(t)
    \/ ParseGetc(t, in)
    \/ ParseRestoreTimeout(t)
    \/ RebootRecvRebooting(t)
    \/ RebootSetTimeout(t)
    \/ RebootRecvBanner(t)
    \/ RebootRecvReady(t)
    \/ RebootRestoreTimeout(t)
    \/ NuestatsSetScanTimeout(t)
    \/ NuestatsGetc(t, in)
    \/ NuestatsRestoreTimeout(t)
    \/ Unlock(t)
    \/ Return(t, in)

\* the threads use the driver concurrently
Next == \E t \in Threads : Call(t, FewInputs) \/ Lock(t) \/ Proceed(t, FewInputs)

Spec == Init /\ [][Next]_vars

\* one thread uses the driver, with every value of the arguments
SeqNext == Call(1, AllInputs) \/ Lock(1) \/ Proceed(1, AllInputs)

SeqSpec == Init /\ [][SeqNext]_vars

\* one thread uses the driver and the modem answers the scans with whole replies
ScanNext == Call(1, ScanInputs) \/ Lock(1) \/ Proceed(1, ScanInputs)

ScanSpec == Init /\ [][ScanNext]_vars

\* the threads are scheduled fairly: a thread that can go on does so, and a
\* thread that waits for the guard gets it if the guard is free again and again
FairSpec ==
    /\ Spec
    /\ \A t \in Threads : WF_vars(Proceed(t, FewInputs))
    /\ \A t \in Threads : SF_vars(Lock(t))

(* ------------------------------------------------------------------ *)
(* Properties                                                           *)
(* ------------------------------------------------------------------ *)
\* positions of an operation at which the reply to its command is still awaited
AwaitingReply ==
    {"recv_ok", "recv_val", "p_set_timeout", "p_recv", "p_set100", "p_getc",
     "recv_rebooting", "rb_set10000", "rb_recv_ublox", "rb_recv_ok", "n_set100", "n_getc"}

\* thread u has sent its command and has not yet had its last receive or scanned byte
InTransaction(u) == th[u].sent > 0 /\ th[u].pc \in AwaitingReply

\* the codes with which an argument check turns a call down
Rejections == {INVALID_PROFILE, VALUE_OUT_OF_BOUNDS, URI_TOO_LONG}

\* thread t is about to return from operation o
Returning(t, o) == th[t].pc = "ret" /\ th[t].op = o

\* C1: at most one thread is between lock and unlock, and no send, recv or getc
\* of another operation falls between an operation's send and the end of its reply
C1_ContiguousTransactions ==
    /\ Cardinality({t \in Threads : th[t].locks > th[t].unlocks}) <= 1
    /\ last.call \in {"send", "recv", "getc"}
         => \A u \in Threads \ {last.thr} : ~InTransaction(u)

\* C2: an operation that locked the guard has unlocked it exactly once when it
\* returns, whatever its result; with no operation in progress the guard is free
C2_GuardReleasedOnReturn ==
    /\ \A t \in Threads :
         /\ th[t].locks <= 1
         /\ th[t].unlocks <= th[t].locks
         /\ th[t].pc \in {"ret", "idle"} => (smutex # t /\ th[t].unlocks = th[t].locks)
         /\ (th[t].pc = "ret" /\ th[t].sent > 0) => (th[t].locks = 1 /\ th[t].unlocks = 1)
    /\ (\A t \in Threads : th[t].pc = "idle") => smutex = 0

\* C2 witness: a CoAP verb whose scan failed returns after one lock and one unlock
C2_Witness ==
    \E t \in Threads :
        /\ th[t].pc = "ret" /\ th[t].op \in CoapVerbs /\ th[t].result = FAIL_PARSE_RESPONSE
        /\ th[t].locks = 1 /\ th[t].unlocks = 1 /\ smutex # t

\* C3: whenever the guard is free the timeout is the 500 ms baseline, and every
\* operation that has taken the guard starts its transaction with 500 ms (looked
\* at while the operations in use are those that take the guard)
C3_TimeoutBaselineOutsideGuard ==
    (\A u \in Threads : th[u].op # "parse_coap_response")
        => /\ smutex = 0 => timeout = BASE_TIMEOUT
           /\ \A t \in Threads : th[t].pc = "flush" => timeout = BASE_TIMEOUT

\* C4: every transport call (flush, send, recv, getc, set_timeout) is made by a
\* thread that holds the guard, taken in the operation that makes the call
C4_TransportOnlyUnderGuard == last.thr # 0 => last.guarded

UcoapLine(n, d) == "AT+UCOAP=" \o ToString(n) \o ",\"" \o ToString(d) \o "\""

\* the call of t sent exactly line l, once, and its result is SARAN2_OK if the
\* acknowledgement came and f otherwise
SentOnceAndAcked(t, l, f) ==
    /\ th[t].sent = 1 /\ th[t].line = l
    /\ th[t].recvs \in {<<TRUE>>, <<FALSE>>}
    /\ th[t].result = (IF th[t].recvs = <<TRUE>> THEN SARAN2_OK ELSE f)

\* the call of t touched neither the guard nor the link
NoGuardNoIo(t) ==
    th[t].locks = 0 /\ th[t].unlocks = 0 /\ th[t].io = 0 /\ th[t].sent = 0 /\ th[t].line = ""

\* C6 as claimed: select_profile(p) sends its command and succeeds on an
\* acknowledgement iff p < NUMBER_OF_PROFILES, and every other p is turned down
\* with INVALID_PROFILE without a command
C6_SelectProfileBelowCount ==
    \A t \in Threads :
        Returning(t, "select_profile") =>
            IF th[t].arg < NUMBER_OF_PROFILES
            THEN SentOnceAndAcked(t, UcoapLine(3, th[t].arg), FAIL_SELECT_PROFILE)
            ELSE th[t].result = INVALID_PROFILE /\ NoGuardNoIo(t)

\* C6 amended: select_profile(p) sends its command and succeeds on an
\* acknowledgement iff p <= NUMBER_OF_PROFILES (profiles 0..3), and every
\* p > NUMBER_OF_PROFILES is turned down with INVALID_PROFILE without a command
C6_SelectProfileUpToCount ==
    \A t \in Threads :
        Returning(t, "select_profile") =>
            IF th[t].arg <= NUMBER_OF_PROFILES
            THEN SentOnceAndAcked(t, UcoapLine(3, th[t].arg), FAIL_SELECT_PROFILE)
            ELSE th[t].result = INVALID_PROFILE /\ NoGuardNoIo(t)

\* C6 witness: profile 3 was selected and acknowledged
C6_Witness ==
    \E t \in Threads :
        /\ Returning(t, "select_profile") /\ th[t].arg = NUMBER_OF_PROFILES
        /\ th[t].result = SARAN2_OK /\ th[t].line = "AT+UCOAP=3,\"3\""

\* C7: load_profile and save_profile turn down, without I/O, exactly the indexes
\* select_profile turns down; for the others they send AT+UCOAP=5,"p" / AT+UCOAP=6,"p"
\* once and return SARAN2_OK iff OK came, else FAIL_LOAD_PROFILE / FAIL_SAVE_PROFILE
C7_LoadSaveProfile ==
    \A t \in Threads :
        /\ Returning(t, "load_profile") =>
              IF select_profile_invalid(th[t].arg)
              THEN th[t].result = INVALID_PROFILE /\ NoGuardNoIo(t)
              ELSE SentOnceAndAcked(t, UcoapLine(5, th[t].arg), FAIL_LOAD_PROFILE)
        /\ Returning(t, "save_profile") =>
              IF select_profile_invalid(th[t].arg)
              THEN th[t].result = INVALID_PROFILE /\ NoGuardNoIo(t)
              ELSE SentOnceAndAcked(t, UcoapLine(6, th[t].arg), FAIL_SAVE_PROFILE)

\* C7 witness: load_profile(3) was sent and not acknowledged
C7_Witness ==
    \E t \in Threads :
        /\ Returning(t, "load_profile") /\ th[t].arg = 3
        /\ th[t].line = "AT+UCOAP=5,\"3\"" /\ th[t].result = FAIL_LOAD_PROFILE

\* C8: set_profile_validity(v) returns VALUE_OUT_OF_BOUNDS without I/O for every
\* v outside {0,1}; for v in {0,1} it sends AT+UCOAP=4,"v" once and returns
\* SARAN2_OK iff the acknowledgement came, else FAIL_SET_PROFILE_VALIDITY
C8_SetProfileValidity ==
    \A t \in Threads :
        Returning(t, "set_profile_validity") =>
            IF th[t].arg \in {0, 1}
            THEN SentOnceAndAcked(t, UcoapLine(4, th[t].arg), FAIL_SET_PROFILE_VALIDITY)
            ELSE th[t].result = VALUE_OUT_OF_BOUNDS /\ NoGuardNoIo(t)

\* C8 witness: the flag 2 was turned down
C8_Witness ==
    \E t \in Threads :
        /\ Returning(t, "set_profile_validity") /\ th[t].arg = 2
        /\ th[t].result = VALUE_OUT_OF_BOUNDS

\* C9: set_coap_uri returns URI_TOO_LONG iff uri_length > 200, whatever uri
\* holds; for uri_length <= 200 it sends AT+UCOAP=1,"uri" with the content of uri
\* and returns SARAN2_OK or FAIL_SET_COAP_URI
C9_SetCoapUri ==
    \A t \in Threads :
        Returning(t, "set_coap_uri") =>
            /\ th[t].result = URI_TOO_LONG <=> th[t].arg > 200
            /\ th[t].arg > 200 => NoGuardNoIo(t)
            /\ th[t].arg <= 200 =>
                  \E uri \in AllInputs.uri :
                      SentOnceAndAcked(t, "AT+UCOAP=1,\"" \o uri \o "\"", FAIL_SET_COAP_URI)

\* C9 witness: a uri of 201 characters passed with uri_length 200 and was sent whole
C9_Witness ==
    \E t \in Threads :
        /\ Returning(t, "set_coap_uri") /\ th[t].arg = 200
        /\ th[t].line = "AT+UCOAP=1,\"" \o LongUri \o "\"" /\ th[t].result = SARAN2_OK

\* C10: the step in which an argument check turns a call down starts where the
\* call starts and leaves the guard, the timeout and the link as they are, and
\* the call has then neither locked nor made a transport call
C10_RejectionTouchesNothing ==
    [][\A t \in Threads :
          (th'[t].result \in Rejections /\ th[t].result \notin Rejections)
              => /\ th[t].pc = "idle"
                 /\ th'[t].pc = "ret"
                 /\ th'[t].locks = 0 /\ th'[t].unlocks = 0
                 /\ th'[t].io = 0 /\ th'[t].sent = 0
                 /\ smutex' = smutex /\ timeout' = timeout /\ last' = last]_vars

\* C10 witness: a call was turned down while the other thread holds the guard
\* in the middle of its transaction
C10_Witness ==
    \E t, u \in Threads :
        /\ t # u /\ th[t].pc = "ret" /\ th[t].result \in Rejections
        /\ smutex = u /\ InTransaction(u)

\* a CoAP verb of t whose command was acknowledged and whose status token came
\* is about to return
VerbScanned(t) ==
    th[t].pc = "ret" /\ th[t].op \in CoapVerbs /\ th[t].recvs = <<TRUE, TRUE>>

\* C11 as claimed: for the reply <status> CR LF "payload" digit, with a payload
\* of 0, 1 or 512 bytes, the verb returns SARAN2_OK, recv_data holds exactly the
\* payload and more_block holds the trailing digit
C11_RoundTripDigitBehindQuote ==
    \A t \in Threads : \A n \in PayloadSizes, d \in TrailingDigits :
        (VerbScanned(t) /\ cs[t].wire = CoapReply(Payload(n), <<d>>))
            => /\ th[t].result = SARAN2_OK
               /\ cs[t].recv_data = Payload(n)
               /\ cs[t].more_block = d

\* C11 amended: for the reply <status> CR LF "payload" , digit, with one byte
\* between the closing quote and the trailing digit and a payload of 0, 1 or
\* 512 bytes, the verb returns SARAN2_OK, recv_data holds exactly the payload and
\* the scan's more_block holds the character code of the trailing digit
C11_RoundTripDigitBehindComma ==
    \A t \in Threads : \A n \in PayloadSizes, d \in TrailingDigits :
        (VerbScanned(t) /\ cs[t].wire = CoapReply(Payload(n), <<COMMA, d>>))
            => /\ th[t].result = SARAN2_OK
               /\ cs[t].recv_data = Payload(n)
               /\ cs[t].more_block = d

\* C11 witness: a payload of 512 bytes followed by ,1 was scanned whole
C11_Witness ==
    \E t \in Threads :
        /\ VerbScanned(t)
        /\ cs[t].wire = CoapReply(Payload(COAP_PAYLOAD_MAX), <<COMMA, 49>>)
        /\ Len(cs[t].recv_data) = COAP_PAYLOAD_MAX /\ cs[t].more_block = 49

\* C12: whatever the modem sends after the status token, the scan of a CoAP
\* verb writes at indexes 0..511 of recv_data only
C12_ScanWritesWithinPayload ==
    \A t \in Threads :
        th[t].op \in CoapVerbs
            => Len(cs[t].recv_data) <= COAP_PAYLOAD_MAX /\ cs[t].buffer_index <= COAP_PAYLOAD_MAX

C14_TelemetryLineDecoded ==
    \A t \in Threads :
        (Returning(t, "nuestats") /\ ns[t].wire = TelemetryLine)
            => ns[t].data = TelemetryRecord

\* C15: with REBOOTING, u-blox and OK received, reboot_module returns SARAN2_OK
\* with the timeout at the 500 ms it had before the call; the timeout is
\* 10000 ms only between the acknowledgement and the return
C15_RebootSequence ==
    \A t \in Threads :
        th[t].op = "reboot_module" =>
            /\ th[t].pc \in {"lock", "flush", "send", "recv_rebooting"} => timeout = BASE_TIMEOUT
            /\ timeout = REBOOT_TIMEOUT
                  => th[t].pc \in {"rb_recv_ublox", "rb_recv_ok", "rb_set500"} /\ th[t].recvs[1]
            /\ (th[t].pc \in {"unlock", "ret"} /\ th[t].recvs = <<TRUE, TRUE, TRUE>>)
                  => th[t].result = SARAN2_OK /\ timeout = BASE_TIMEOUT

\* C15 witness: the three tokens came and reboot_module returns SARAN2_OK
C15_Witness ==
    \E t \in Threads :
        /\ Returning(t, "reboot_module") /\ th[t].recvs = <<TRUE, TRUE, TRUE>>
        /\ th[t].result = SARAN2_OK /\ timeout = BASE_TIMEOUT

\* C16: with REBOOTING received but no banner, or the banner but no OK,
\* reboot_module returns FAIL_REBOOT, the timeout is 500 ms again when the
\* guard is released and the guard is released at the return
C16_RebootNoBannerOrReady ==
    \A t \in Threads :
        (th[t].op = "reboot_module" /\ th[t].recvs \in {<<TRUE, FALSE>>, <<TRUE, TRUE, FALSE>>})
            => /\ th[t].result = FAIL_REBOOT
               /\ th[t].pc \in {"rb_set500", "unlock", "ret"}
               /\ th[t].pc \in {"unlock", "ret"} => timeout = BASE_TIMEOUT
               /\ th[t].pc = "ret" => smutex = 0 /\ th[t].unlocks = 1

\* C16 witness: the banner came, the final OK did not
C16_Witness ==
    \E t \in Threads :
        /\ Returning(t, "reboot_module") /\ th[t].recvs = <<TRUE, TRUE, FALSE>>
        /\ th[t].result = FAIL_REBOOT /\ timeout = BASE_TIMEOUT /\ smutex = 0

\* C17: when REBOOTING does not come, reboot_module returns FAIL_REBOOT after
\* flush, send and that one recv: it sets no timeout, waits for nothing else
\* and leaves the timeout at its value
C17_RebootNotAcknowledged ==
    \A t \in Threads :
        (th[t].op = "reboot_module" /\ Len(th[t].recvs) > 0 /\ ~th[t].recvs[1])
            => /\ th[t].recvs = <<FALSE>>
               /\ th[t].io = 3
               /\ th[t].pc \in {"unlock", "ret"}
               /\ th[t].result = FAIL_REBOOT
               /\ timeout = BASE_TIMEOUT

\* C17 witness: reboot_module returns after REBOOTING did not come
C17_Witness ==
    \E t \in Threads :
        /\ Returning(t, "reboot_module") /\ th[t].recvs = <<FALSE>>
        /\ th[t].result = FAIL_REBOOT /\ th[t].io = 3

\* the command line of a CoAP verb called with content-format a
VerbCommands(o, a) ==
    CASE o = "coap_get" -> {"AT+UCOAPC=1"}
      [] o = "coap_delete" -> {"AT+UCOAPC=2"}
      [] o = "coap_put" ->
            {"AT+UCOAPC=3,\"" \o d \o "\"," \o ToString(a) : d \in AllInputs.send_data}
      [] o = "coap_post" ->
            {"AT+UCOAPC=4,\"" \o d \o "\"," \o ToString(a) : d \in AllInputs.send_data}

\* the code a CoAP verb returns when its command is not acknowledged
VerbFailure(o) ==
    CASE o = "coap_get" -> FAIL_START_GET_REQUEST
      [] o = "coap_delete" -> FAIL_START_DELETE_REQUEST
      [] o = "coap_put" -> FAIL_START_PUT_REQUEST
      [] o = "coap_post" -> FAIL_START_POST_REQUEST

\* the positions of parse_coap_response
ScanPositions == {"p_set_timeout", "p_recv", "p_set100", "p_getc", "p_set500"}

\* C18: a CoAP verb locks, flushes, sends its own command, awaits OK, scans and
\* unlocks, in this order; without OK the scan is not run, recv_data and
\* response_code stay as they were and the verb returns its own failure code;
\* when the scan fails the verb returns FAIL_PARSE_RESPONSE
C18_VerbSequence ==
    \A t \in Threads :
        th[t].op \in CoapVerbs =>
            /\ th[t].pc = "flush" => Holds(t) /\ th[t].io = 0
            /\ th[t].pc = "send" => Holds(t) /\ th[t].io = 1 /\ th[t].sent = 0 /\ last.call = "flush"
            /\ th[t].pc = "recv_ok"
                  => /\ Holds(t) /\ th[t].io = 2 /\ th[t].sent = 1 /\ th[t].recvs = <<>>
                     /\ th[t].line \in VerbCommands(th[t].op, th[t].arg) /\ last.call = "send"
            /\ th[t].pc \in ScanPositions
                  => Holds(t) /\ th[t].sent = 1 /\ th[t].io >= 3 /\ th[t].recvs[1]
            /\ th[t].pc = "ret"
                  => /\ th[t].unlocks = 1 /\ smutex = 0
                     /\ th[t].recvs = <<FALSE>>
                           => th[t].result = VerbFailure(th[t].op) /\ cs[t] = IdleCoapScan
                     /\ th[t].recvs = <<TRUE, FALSE>> => th[t].result = FAIL_PARSE_RESPONSE
                     /\ th[t].recvs = <<TRUE, TRUE>> => th[t].result = SARAN2_OK
                     /\ th[t].recvs \in {<<FALSE>>, <<TRUE, FALSE>>, <<TRUE, TRUE>>}

\* C18 witness: coap_put with content-format 6 was sent and not acknowledged
C18_Witness ==
    \E t \in Threads :
        /\ Returning(t, "coap_put") /\ th[t].recvs = <<FALSE>>
        /\ th[t].line = "AT+UCOAPC=3,\"hi\",6"
        /\ th[t].result = FAIL_START_PUT_REQUEST /\ cs[t].recv_data = <<>>

\* the modem has said nothing to the call of t: every recv failed and no getc
\* returned a byte
Silent(t) ==
    /\ \A k \in 1..Len(th[t].recvs) : ~th[t].recvs[k]
    /\ cs[t].i = 0 /\ ns[t].i = 0

\* C19: an operation that has sent its command to a modem that never replies
\* returns a code other than SARAN2_OK
C19_SilentModemIsFailure ==
    \A t \in Threads :
        (th[t].pc = "ret" /\ th[t].sent = 1 /\ Silent(t)) => th[t].result # SARAN2_OK

\* a call of t has its result: it sends and receives nothing more
Decided(t) ==
    th[t].result # -1 => th[t].pc \in {"rb_set500", "unlock", "n_set500", "ret"}

\* a call of t that missed a reply does not go back to its command
NoRetry(t) ==
    (\E k \in 1..Len(th[t].recvs) : ~th[t].recvs[k]) => th[t].pc \notin {"lock", "flush", "send"}

SettingOps ==
    {"select_profile", "load_profile", "save_profile", "set_profile_validity",
     "set_coap_ip_port", "set_coap_uri",
     "pdu_header_add_uri_host", "pdu_header_add_uri_port", "pdu_header_add_uri_path",
     "pdu_header_add_uri_query", "pdu_header_remove_uri_host", "pdu_header_remove_uri_port",
     "pdu_header_remove_uri_path", "pdu_header_remove_uri_query", "select_coap_at_interface"}

\* the failure code named after each of them (src/SaraN2Driver.h:398-440)
SettingFailure(o) ==
    CASE o = "select_profile" -> FAIL_SELECT_PROFILE
      [] o = "load_profile" -> FAIL_LOAD_PROFILE
      [] o = "save_profile" -> FAIL_SAVE_PROFILE
      [] o = "set_profile_validity" -> FAIL_SET_PROFILE_VALIDITY
      [] o = "set_coap_ip_port" -> FAIL_SET_COAP_IP_PORT
      [] o = "set_coap_uri" -> FAIL_SET_COAP_URI
      [] o = "pdu_header_add_uri_host" -> FAIL_ADD_URI_HOST_PDU
      [] o = "pdu_header_add_uri_port" -> FAIL_ADD_URI_PORT_PDU
      [] o = "pdu_header_add_uri_path" -> FAIL_ADD_URI_PATH_PDU
      [] o = "pdu_header_add_uri_query" -> FAIL_ADD_URI_QUERY_PDU
      [] o = "pdu_header_remove_uri_host" -> FAIL_REMOVE_URI_HOST_PDU
      [] o = "pdu_header_remove_uri_port" -> FAIL_REMOVE_URI_PORT_PDU
      [] o = "pdu_header_remove_uri_path" -> FAIL_REMOVE_URI_PATH_PDU
      [] o = "pdu_header_remove_uri_query" -> FAIL_REMOVE_URI_QUERY_PDU
      [] o = "select_coap_at_interface" -> FAIL_SELECT_COAP_AT_INTERFACE

\* C21: a setting operation whose arguments passed returns SARAN2_OK iff its
\* recv("OK") matched and its own failure code otherwise; the fifteen codes
\* differ from each other and no other operation returns one of them
C21_OwnFailureCode ==
    /\ \A o, q \in SettingOps : SettingFailure(o) = SettingFailure(q) => o = q
    /\ \A t \in Threads :
         th[t].pc = "ret" =>
            /\ (th[t].op \in SettingOps /\ th[t].result \notin Rejections)
                  => /\ th[t].recvs \in {<<TRUE>>, <<FALSE>>}
                     /\ th[t].result = SARAN2_OK <=> th[t].recvs = <<TRUE>>
                     /\ th[t].result # SARAN2_OK => th[t].result = SettingFailure(th[t].op)
            /\ \A o \in SettingOps : th[t].result = SettingFailure(o) => th[t].op = o

\* C21 witness: pdu_header_remove_uri_host was not acknowledged
C21_Witness ==
    \E t \in Threads :
        /\ Returning(t, "pdu_header_remove_uri_host") /\ th[t].recvs = <<FALSE>>
        /\ th[t].result = FAIL_REMOVE_URI_HOST_PDU

\* C22: the command of a CoAP verb is on the link only when
\* select_coap_at_interface has returned SARAN2_OK before
C22_VerbAfterInterfaceSelected ==
    \A t \in Threads :
        (th[t].op \in CoapVerbs /\ th[t].sent > 0) => coap_at

\* C23: whenever a scan is about to call getc the timeout is the 100 ms of the
\* scans, whatever the other threads do
C23_ScanTimeoutAtGetc ==
    \A t \in Threads : th[t].pc \in {"p_getc", "n_getc"} => timeout = SCAN_TIMEOUT

\* C24: while a thread holds the guard nobody else changes the timeout:
\* reboot_module awaits u-blox and OK with 10000 ms and a CoAP verb awaits
\* +UCOAPCD with its status timeout
C24_HolderOwnsTimeout ==
    \A t \in Threads :
        Holds(t) =>
            /\ (th[t].op = "reboot_module" /\ th[t].pc \in {"rb_recv_ublox", "rb_recv_ok"})
                  => timeout = REBOOT_TIMEOUT
            /\ (th[t].op \in CoapVerbs /\ th[t].pc = "p_recv")
                  => timeout = cs[t].status_timeout

\* the outcomes of the waits of reboot_module so far, in the order REBOOTING, u-blox, OK
RebootStages ==
    {<<>>, <<FALSE>>, <<TRUE>>, <<TRUE, FALSE>>, <<TRUE, TRUE>>,
     <<TRUE, TRUE, FALSE>>, <<TRUE, TRUE, TRUE>>}

\* C25: reboot_module awaits u-blox only after REBOOTING matched and OK only
\* after u-blox matched, returns SARAN2_OK only if the three matched in that
\* order and FAIL_REBOOT otherwise, and a call starts afresh whatever the call
\* before it did
C25_RebootStagesInOrder ==
    \A t \in Threads :
        th[t].op = "reboot_module" =>
            /\ th[t].recvs \in RebootStages
            /\ th[t].pc \in {"lock", "flush", "send", "recv_rebooting"}
                  => th[t].recvs = <<>> /\ th[t].result = -1
            /\ th[t].pc \in {"rb_set10000", "rb_recv_ublox"} => th[t].recvs = <<TRUE>>
            /\ th[t].pc = "rb_recv_ok" => th[t].recvs = <<TRUE, TRUE>>
            /\ th[t].result # -1
                  => /\ th[t].result \in {SARAN2_OK, FAIL_REBOOT}
                     /\ th[t].result = SARAN2_OK <=> th[t].recvs = <<TRUE, TRUE, TRUE>>

\* C25 witness: the banner is awaited after REBOOTING came
C25_Witness ==
    \E t \in Threads :
        /\ th[t].op = "reboot_module" /\ th[t].pc = "rb_recv_ublox"
        /\ th[t].recvs = <<TRUE>> /\ timeout = REBOOT_TIMEOUT

\* the bytes of the reply w that n calls of getc have returned
Consumed(w, n) == SubSeq(w, 1, IF n < Len(w) THEN n ELSE Len(w))

\* where the quotes of w are
QuoteIndexes(w) == {k \in 1..Len(w) : w[k] = QUOTE}

Least(S) == CHOOSE k \in S : \A j \in S : k <= j

\* the position of the second quote of w; 0 when w has fewer than two
SecondQuote(w) ==
    IF Cardinality(QuoteIndexes(w)) < 2 THEN 0
    ELSE Least(QuoteIndexes(w) \ {Least(QuoteIndexes(w))})

\* the bytes of w strictly between its first and its second quote, up to the
\* end of w when there is no second quote
Between(w) ==
    IF QuoteIndexes(w) = {} THEN <<>>
    ELSE SubSeq(w, Least(QuoteIndexes(w)) + 1,
                IF SecondQuote(w) = 0 THEN Len(w) ELSE SecondQuote(w) - 1)

\* the byte scan of parse_coap_response, called by a verb or directly, is over
ScanDone(t) ==
    /\ th[t].op \in CoapVerbs \cup {"parse_coap_response"}
    /\ th[t].pc \in {"p_set500", "unlock", "ret"}
    /\ Len(th[t].recvs) > 0 /\ th[t].recvs[Len(th[t].recvs)]

\* C26: once the status token has come the scan returns SARAN2_OK whatever
\* follows, also when the ceiling or a timeout comes before a closing quote;
\* recv_data holds what was captured so far and more_block stays -1
C26_ScanAlwaysSucceeds ==
    \A t \in Threads :
        ScanDone(t) =>
            /\ cs[t].presult = SARAN2_OK
            /\ th[t].pc \in {"unlock", "ret"} => th[t].result = SARAN2_OK
            /\ SecondQuote(Consumed(cs[t].wire, cs[t].getcs)) = 0
                  => /\ cs[t].more_block = -1
                     /\ cs[t].recv_data = Between(Consumed(cs[t].wire, cs[t].getcs))

\* C26 witness: a verb returns SARAN2_OK after a scan that met an opening quote
\* and ran into the ceiling
C26_Witness ==
    \E t \in Threads :
        /\ VerbScanned(t) /\ th[t].result = SARAN2_OK
        /\ cs[t].i = COAP_SCAN_CEILING /\ cs[t].capture_byte > 0 /\ cs[t].more_block = -1

\* C27: the CoAP scan calls getc at most 520 times and not again after the
\* trailing byte was taken or a getc returned -1; the telemetry scan calls
\* getc at most 200 times and not again after a getc returned -1; a scan that
\* does not call getc again is over and the operation goes on to its return
C27_ScansEnd ==
    \A t \in Threads :
        /\ cs[t].getcs <= COAP_SCAN_CEILING /\ ns[t].getcs <= NUESTATS_SCAN_CEILING
        /\ th[t].pc = "p_getc"
              => /\ cs[t].getcs < COAP_SCAN_CEILING
                 /\ cs[t].getcs <= Len(cs[t].wire)
                 /\ cs[t].more_block = -1
        /\ th[t].pc = "n_getc"
              => ns[t].getcs < NUESTATS_SCAN_CEILING /\ ns[t].getcs <= Len(ns[t].wire)
        /\ ScanDone(t)
              => \/ cs[t].getcs = COAP_SCAN_CEILING
                 \/ cs[t].getcs = Len(cs[t].wire) + 1
                 \/ cs[t].more_block # -1
        /\ (th[t].op = "nuestats" /\ th[t].pc \in {"unlock", "n_set500", "ret"})
              => \/ ns[t].getcs = NUESTATS_SCAN_CEILING
                 \/ ns[t].getcs = Len(ns[t].wire) + 1

\* C27 witness: the telemetry scan stopped at its ceiling with bytes left
C27_Witness ==
    \E t \in Threads :
        /\ Returning(t, "nuestats") /\ ns[t].getcs = NUESTATS_SCAN_CEILING
        /\ Len(ns[t].wire) > NUESTATS_SCAN_CEILING

\* C28: at every moment of a scan recv_data holds, from index 0 on and in
\* order, exactly the bytes read so far that lie strictly between the first and
\* the second quote
C28_PayloadBetweenQuotes ==
    \A t \in Threads :
        th[t].op \in CoapVerbs \cup {"parse_coap_response"}
            => cs[t].recv_data = Between(Consumed(cs[t].wire, cs[t].getcs))

\* C28 witness: a reply with a third quote and a byte behind it was read to
\* its end and only the byte between the first two quotes was kept
C28_Witness ==
    \E t \in Threads :
        /\ VerbScanned(t)
        /\ cs[t].wire = <<QUOTE, 65, QUOTE, QUOTE>>
        /\ cs[t].getcs = 5 /\ cs[t].recv_data = <<65>>

\* the reply of a finished scan has its second quote at position k and at
\* least two bytes behind it within the reach of the scan
ClosedAt(t, k) ==
    /\ ScanDone(t)
    /\ k > 0 /\ k + 2 <= Len(cs[t].wire) /\ k + 2 <= COAP_SCAN_CEILING

\* C29 as claimed: with the closing quote at position k, more_block is the byte
\* at position k+2 whatever the two bytes behind the quote are, the scan ends
\* there and the byte at k+1 is not stored
C29_TrailingAtOffsetTwo ==
    \A t \in Threads :
        LET k == SecondQuote(cs[t].wire)
        IN  ClosedAt(t, k)
            => /\ cs[t].more_block = cs[t].wire[k + 2]
               /\ cs[t].getcs = k + 2
               /\ cs[t].recv_data = Between(cs[t].wire)

\* C29 amended: the same when neither of the two bytes behind the closing
\* quote is a quote
C29_TrailingAtOffsetTwoNoQuote ==
    \A t \in Threads :
        LET k == SecondQuote(cs[t].wire)
        IN  (ClosedAt(t, k) /\ cs[t].wire[k + 1] # QUOTE /\ cs[t].wire[k + 2] # QUOTE)
            => /\ cs[t].more_block = cs[t].wire[k + 2]
               /\ cs[t].getcs = k + 2
               /\ cs[t].recv_data = Between(cs[t].wire)

\* C29 witness: an empty payload, then a letter and a digit: the digit is taken
C29_Witness ==
    \E t \in Threads :
        /\ VerbScanned(t) /\ cs[t].wire = <<QUOTE, QUOTE, 65, 49>>
        /\ cs[t].more_block = 49 /\ cs[t].getcs = 4 /\ cs[t].recv_data = <<>>

\* C30: nuestats writes the slots 0..10 of data only: the slot counter is at
\* most 10 at a write, however many fields the modem sends
C30_AtMostElevenSlots ==
    \A t \in Threads : ns[t].parameter <= NUESTATS_SLOTS /\ Len(ns[t].data) <= NUESTATS_SLOTS

\* the lines configure_ue builds from an entry of each of its two tables
ConfigLines ==
    {"AT+NCONFIG=" \o Quoted(config_functions[f]) \o "," \o Quoted(config_values[v]) :
        f \in 1..Len(config_functions), v \in 1..Len(config_values)}

\* C31: configure_ue turns down a function above 6 or a value above 1 before it
\* touches the guard or the link, so the line it sends is always built from an
\* entry of config_functions and an entry of config_values
C31_ConfigIndexesChecked ==
    \A t \in Threads :
        th[t].op = "configure_ue" =>
            /\ th[t].arg >= Len(config_functions) => (th[t].pc = "ret" /\ NoGuardNoIo(t))
            /\ th[t].pc # "ret" => th[t].cmd \in ConfigLines
            /\ th[t].sent > 0 => th[t].line \in ConfigLines

\* the option and the flag each pdu_header operation is to send
PduPair(o) ==
    CASE o = "pdu_header_add_uri_host" -> <<"0", "1">>
      [] o = "pdu_header_add_uri_port" -> <<"1", "1">>
      [] o = "pdu_header_add_uri_path" -> <<"2", "1">>
      [] o = "pdu_header_add_uri_query" -> <<"3", "1">>
      [] o = "pdu_header_remove_uri_host" -> <<"0", "0">>
      [] o = "pdu_header_remove_uri_port" -> <<"1", "0">>
      [] o = "pdu_header_remove_uri_path" -> <<"2", "0">>
      [] o = "pdu_header_remove_uri_query" -> <<"3", "0">>

PduOps ==
    {"pdu_header_add_uri_host", "pdu_header_add_uri_port", "pdu_header_add_uri_path",
     "pdu_header_add_uri_query", "pdu_header_remove_uri_host", "pdu_header_remove_uri_port",
     "pdu_header_remove_uri_path", "pdu_header_remove_uri_query"}

\* C32: each of the eight pdu_header operations takes the guard with, and then
\* sends, the one line AT+UCOAP=2,"<opt>","<flag>" of its option (0 host, 1 port,
\* 2 path, 3 query) and flag (1 add, 0 remove); no two operations that are in
\* progress at once send the same line
C32_PduHeaderLines ==
    /\ \A t \in Threads :
         th[t].op \in PduOps =>
            /\ th[t].cmd = "AT+UCOAP=2,\"" \o PduPair(th[t].op)[1] \o "\",\""
                              \o PduPair(th[t].op)[2] \o "\""
            /\ th[t].sent > 0 => (th[t].sent = 1 /\ th[t].line = th[t].cmd)
    /\ \A t, u \in Threads :
         (th[t].op \in PduOps /\ th[u].op \in PduOps /\ th[t].op # th[u].op)
            => th[t].cmd # th[u].cmd

\* C32 witness: pdu_header_remove_uri_query has sent option 3 with flag 0 and
\* was acknowledged
C32_Witness ==
    \E t \in Threads :
        /\ Returning(t, "pdu_header_remove_uri_query") /\ th[t].result = SARAN2_OK
        /\ th[t].line = "AT+UCOAP=2,\"3\",\"0\""

\* the code a query returns when it fails
QueryFailure(o) ==
    CASE o = "query_power_save_mode" -> FAIL_QUERY_PSM
      [] o = "cereg" -> FAIL_GET_CEREG
      [] o = "cscon" -> FAIL_GET_CSCON

\* C33: a query returns SARAN2_OK iff its value line and then OK were matched;
\* OK is awaited only after the value line was matched; in both failure cases
\* the query returns its own code, and it has released the guard when it returns
C33_QueryNeedsValueThenOk ==
    \A t \in Threads :
        th[t].op \in QueryOps =>
            /\ th[t].recvs \in {<<>>, <<FALSE>>, <<TRUE>>, <<TRUE, FALSE>>, <<TRUE, TRUE>>}
            /\ th[t].pc = "recv_val" => th[t].recvs = <<>>
            /\ th[t].pc = "recv_ok" => th[t].recvs = <<TRUE>>
            /\ th[t].result # -1 =>
                  /\ th[t].result = SARAN2_OK <=> th[t].recvs = <<TRUE, TRUE>>
                  /\ th[t].result # SARAN2_OK
                        => /\ th[t].result = QueryFailure(th[t].op)
                           /\ th[t].recvs \in {<<FALSE>>, <<TRUE, FALSE>>}
            /\ th[t].pc = "ret"
                  => th[t].result # -1 /\ th[t].locks = 1 /\ th[t].unlocks = 1 /\ smutex # t

\* C33 witness: cscon matched its value line, missed OK and returns FAIL_GET_CSCON
C33_Witness ==
    \E t \in Threads :
        /\ Returning(t, "cscon") /\ th[t].recvs = <<TRUE, FALSE>>
        /\ th[t].result = FAIL_GET_CSCON /\ th[t].unlocks = 1

\* C37: the test of set_coap_uri is made on the length the caller passed taken
\* modulo 256: the call returns URI_TOO_LONG iff that is above 200, and a
\* length above 255 whose remainder is at most 200 passes and the line is sent
C37_LengthModulo256 ==
    \A t \in Threads :
        Returning(t, "set_coap_uri") =>
            /\ th[t].given \in 0..65535
            /\ th[t].result = URI_TOO_LONG <=> (th[t].given % 256) > MAX_URI_LENGTH
            /\ (th[t].given % 256) > MAX_URI_LENGTH => NoGuardNoIo(t)
            /\ (th[t].given > 255 /\ (th[t].given % 256) <= MAX_URI_LENGTH)
                  => th[t].sent = 1 /\ th[t].result \in {SARAN2_OK, FAIL_SET_COAP_URI}

\* C37 witness: a length of 456 passed the test as 200 and the line was sent
C37_Witness ==
    \E t \in Threads :
        /\ Returning(t, "set_coap_uri") /\ th[t].given = 256 + MAX_URI_LENGTH
        /\ th[t].arg = MAX_URI_LENGTH /\ th[t].sent = 1 /\ th[t].result = SARAN2_OK

\* C34: a reply of n <= 11 lines <label>,<integer> CR LF leaves the integer of
\* the k-th line in the k-th slot of data, writes no other slot, and nuestats
\* returns SARAN2_OK
C34_LabelledLinesStored ==
    \A t \in Threads :
        \A rec \in LabelledRecords :
            (Returning(t, "nuestats") /\ ns[t].wire = LabelledLines(rec))
                => ns[t].data = rec /\ ~ns[t].oob /\ th[t].result = SARAN2_OK

\* the values of the fields of reply w from position k on, each the decimal
\* value of the bytes captured since the most recent comma; cur is what was
\* captured so far, and out the values of the fields already ended by a CR
RECURSIVE FieldValues(_, _, _, _, _)
FieldValues(w, k, cur, capturing, out) ==
    IF k > Len(w) THEN out
    ELSE IF w[k] = COMMA THEN FieldValues(w, k + 1, <<>>, TRUE, out)
    ELSE IF w[k] = CR /\ Len(cur) > 0
    THEN FieldValues(w, k + 1, <<>>, FALSE, Append(out, Atoi(cur)))
    ELSE IF w[k] = LF THEN FieldValues(w, k + 1, cur, FALSE, out)
    ELSE IF capturing THEN FieldValues(w, k + 1, Append(cur, w[k]), TRUE, out)
    ELSE FieldValues(w, k + 1, cur, FALSE, out)

\* C35: every value nuestats has stored is the decimal value of exactly the
\* bytes captured since the most recent comma before its CR: nothing of a
\* field that a comma ended, and nothing of the buffer that was never written
\* (looked at while no write has left the record or the field buffer)
C35_ValueOfCapturedBytesOnly ==
    \A t \in Threads :
        (th[t].op = "nuestats" /\ ~ns[t].oob)
            => ns[t].data = FieldValues(Consumed(ns[t].wire, ns[t].getcs), 1, <<>>, FALSE, <<>>)

\* the operations that take the guard are all but parse_coap_response
TakesGuard(t) == th[t].op \notin {"none", "parse_coap_response"} /\ th[t].locks > 0

\* C36: an operation that has taken the guard calls flush before anything else
\* on the link and before its send, so that nothing an earlier scan left
\* unread in the receive buffer is there when the command is sent or while its
\* reply is awaited
C36_FlushBeforeSend ==
    \A t \in Threads :
        TakesGuard(t) =>
            /\ th[t].pc = "flush" => (th[t].io = 0 /\ th[t].sent = 0)
            /\ th[t].pc = "send" => (th[t].io = 1 /\ th[t].sent = 0)
            /\ th[t].sent > 0 => th[t].io >= 2
            /\ th[t].pc \in {"send"} \cup AwaitingReply => rx = <<>>

\* C36 witness: the flush of an operation has dropped the rest of an earlier
\* reply, and the operation is about to send its command
C36_Witness ==
    \E t \in Threads :
        /\ TakesGuard(t) /\ th[t].pc = "send" /\ rx = <<>>
        /\ last.thr = t /\ last.call = "flush" /\ last.dropped > 0

\* C38: no byte is written into the field buffer at an index above 15: the
\* bytes captured for one field are never more than 16
C38_FieldWithinBuffer ==
    \A t \in Threads : ns[t].buffer_index <= NUESTATS_BUFFER_SIZE
====
